---- MODULE Spec2Model ----
(***************************************************************************)
(* Longest-prefix-match tries of iptrie: the mutable radix (Patricia) trie *)
(* of src/src/trie/patricia.rs and the level-compressed trie built from it *)
(* by src/src/trie/lctrie.rs, over the prefix algebra of src/src/prefix.   *)
(*                                                                         *)
(* A slot is a natural number below 2^W, bit 1 being the most significant. *)
(* A prefix is a record [slot, len]; its slot may hold bits below len      *)
(* (Ipv4Net / Ipv6Net keep the host address), as the code allows.          *)
(* A NodeIndex is an integer: j >= 0 is branching j, -(i+1) is leaf i.     *)
(***************************************************************************)
EXTENDS Integers, Sequences, FiniteSets, TLC

\* Width of the bit slot of the model (BitSlot::LEN is 32, 64 or 128).
W == 3

\* Largest number of leaves (root included) of the arena.
MaxLeaves == 4

\* Largest number of remove calls of one run (the branching arena never
\* shrinks, so removals are what makes a run unbounded).
MaxRemoves == 1

\* Number of distinct user values.
MaxVal == 2

\* Largest number of leaves (root included) of the tries built from DeepKeys
MaxDeepLeaves == 5

\* Largest number of removes of a prefix other than the root in the runs of
\* SpecHost
MaxHostRemoves == 2

VARIABLES
    branching,  \* RadixTrie.branching: Seq of [escape, parent, child, bit]
    leaves,     \* RadixTrie.leaves: Seq of [prefix, value]
    last,       \* the last call that changed the trie: [op, key, val, res]
    ret,        \* the last query made since: [op, key, res]
    stored,     \* history: the leaves inserted and not removed since
    nrem,       \* history: number of remove calls so far
    dbg,        \* FALSE once a debug assertion of the code has failed
    failed,     \* the debug assertions of the radix trie that have failed
    ub,         \* TRUE once a call has read or written outside the leaf arena
    lc,         \* the LC-trie built by compress(), or NoLC
    twin,       \* the trie the same calls build from the truncated prefixes
    px          \* the prefix computation under way, or NoPx

vars == <<branching, leaves, last, ret, stored, nrem, dbg, ub, lc, twin, px, failed>>

--------------------------------------------------------------------------
(* Bit slots: src/src/prefix/slot.rs *)

Pow2(n) == 2 ^ n

SlotMax == Pow2(W) - 1

Slots == 0 .. SlotMax

RECURSIVE BitAnd(_, _)
BitAnd(a, b) ==
    IF a = 0 \/ b = 0 THEN 0
    ELSE (a % 2) * (b % 2) + 2 * BitAnd(a \div 2, b \div 2)

RECURSIVE BitXor(_, _)
BitXor(a, b) ==
    IF a = 0 THEN b
    ELSE IF b = 0 THEN a
    ELSE ((a + b) % 2) + 2 * BitXor(a \div 2, b \div 2)

\* x >> n on a W-bit slot
Shr(x, n) == x \div Pow2(n)

\* leading_zeros() + 1; W + 1 for the null slot
RECURSIVE first_bit_from(_, _)
first_bit_from(x, pos) ==
    IF pos > W THEN W + 1
    ELSE IF Shr(x, W - pos) % 2 = 1 THEN pos
    ELSE first_bit_from(x, pos + 1)

first_bit(x) == first_bit_from(x, 1)

is_set(x, pos) == pos >= 1 /\ pos <= W /\ Shr(x, W - pos) % 2 = 1

slot_bitmask(len) == IF len = 0 THEN 0 ELSE SlotMax - (Pow2(W - len) - 1)

--------------------------------------------------------------------------
(* Prefixes: src/src/prefix/ipstd.rs, src/src/prefix/cover.rs *)

Prefixes == [slot : Slots, len : 0 .. W]

Pfx(s, l) == [slot |-> s, len |-> l]

RootPrefix == Pfx(0, 0)

bitslot(p) == p.slot

bitmask(p) == slot_bitmask(p.len)

bitslot_trunc(p) == BitAnd(p.slot, slot_bitmask(p.len))

\* the prefixes with no bit set below their length (Ipv4Prefix, Ipv6Prefix)
Truncated == { p \in Prefixes : bitslot_trunc(p) = p.slot }

Addresses == { p \in Prefixes : p.len = W }

\* the prefixes the runs insert and remove: the chain 0/1, 01/2, 010/3 with
\* the sibling 011/3, and 100/3 in the other half
Keys == { Pfx(0, 1), Pfx(2, 2), Pfx(2, 3), Pfx(3, 3), Pfx(4, 3) }

\* prefixes with bits set below their length (Ipv4Net, Ipv6Net keep them):
\* 011/1, 110/1, 101/2 and 001/0
HostKeys == { Pfx(3, 1), Pfx(6, 1), Pfx(5, 2), Pfx(1, 0) }

\* the keys of the maps: the root prefix, 0/1 and 010/3 under it, 011/3
MapKeys == { RootPrefix, Pfx(0, 1), Pfx(2, 3), Pfx(3, 3) }

\* prefixes of both kinds for the runs that replace as well
AllKeys == { Pfx(0, 1), Pfx(2, 3), Pfx(3, 3), Pfx(3, 1), Pfx(1, 0) }

covering(p, q) ==
    IF BitAnd(bitslot(q), bitmask(p)) # bitslot_trunc(p) THEN "NoCover"
    ELSE IF p.len < q.len THEN "WiderRange"
    ELSE IF p.len = q.len THEN "SameRange"
    ELSE "NoCover"

covers(p, q) == covering(p, q) # "NoCover"

covers_equally(p, q) == covering(p, q) = "SameRange"

--------------------------------------------------------------------------
(* Node indices and arenas: src/src/trie/common.rs *)

LeafIndex(i) == -(i + 1)

LeafPos(l) == -l - 1

RootLeaf == LeafIndex(0)

RootBranching == 0

is_leaf(n) == n < 0

is_branching(n) == n >= 0

Leaf(p, v) == [prefix |-> p, value |-> v]

\* leaves[l] through get_unchecked: outside the arena the read is undefined
\* and yields g, any leaf
InArena(lv, l) == LeafPos(l) < Len(lv)

LeafAt(lv, l, g) == IF InArena(lv, l) THEN lv[LeafPos(l) + 1] ELSE g

PfxAt(lv, l, g) == LeafAt(lv, l, g).prefix

Br(t, b) == t.br[b + 1]

\* Branching::child
BChild(b, slot) == IF is_set(slot, b.bit) THEN b.child[2] ELSE b.child[1]

\* *Branching::child_mut(slot) = x
SetChild(t, n, slot, x) ==
    [t EXCEPT !.br[n + 1].child[IF is_set(slot, Br(t, n).bit) THEN 2 ELSE 1] = x]

NewBranching ==
    << [escape |-> RootLeaf, parent |-> RootBranching,
        child |-> <<RootLeaf, RootLeaf>>, bit |-> 1] >>

\* BranchingTree::push: the pair (tree, index of the added node)
BPush(t, parent, escape, bit) ==
    [t EXCEPT !.br = Append(t.br, [escape |-> escape, parent |-> parent,
                                   child |-> <<escape, escape>>, bit |-> bit])]

--------------------------------------------------------------------------
(* Radix trie: src/src/trie/patricia.rs.  A tree t is [br, ok]: the arena  *)
(* of branchings and whether every debug assertion met so far has held.   *)

\* debug_assert!(cond) at the place named: the tree remembers a failure
debug_assert(t, name, cond) ==
    [t EXCEPT !.ok = t.ok /\ cond,
              !.failed = IF cond THEN @ ELSE @ \cup { name }]

RECURSIVE search_deepest_candidate_from(_, _, _)
search_deepest_candidate_from(t, b, slot) ==
    LET n == BChild(Br(t, b), slot)
    IN  IF is_leaf(n) THEN <<b, n>>
        ELSE search_deepest_candidate_from(t, n, slot)

search_deepest_candidate(t, slot) ==
    search_deepest_candidate_from(t, RootBranching, slot)

RECURSIVE replace_escape_leaf(_, _, _, _)
replace_escape_leaf(t, n, l1, l2) ==
    LET t0 == [debug_assert(t, "replace_escape_leaf: escape == l1", Br(t, n).escape = l1)
                  EXCEPT !.br[n + 1].escape = l2]
        Step(tt, i) ==
            LET c == Br(tt, n).child[i]
            IN  IF is_leaf(c)
                THEN IF c = l1 THEN [tt EXCEPT !.br[n + 1].child[i] = l2] ELSE tt
                ELSE IF Br(tt, c).escape = l1
                     THEN replace_escape_leaf(tt, c, l1, l2)
                     ELSE tt
    IN  Step(Step(t0, 1), 2)

\* the pair (tree, index of the inserted branching)
insert_prefix_branching(t, n, e, x, p, slot) ==
    LET nn == Len(t.br)
        t1 == BPush(debug_assert(t, "insert_prefix_branching: bit <= p", Br(t, n).bit <= p), n, e, p)
        t2 == SetChild(t1, nn, slot, x)
        t3 == IF is_branching(x)
              THEN LET t30 == [debug_assert(t2, "insert_prefix_branching: bit > p", Br(t2, x).bit > p)
                                  EXCEPT !.br[x + 1].parent = nn]
                   IN  IF Br(t30, x).escape = Br(t30, n).escape
                       THEN replace_escape_leaf(t30, x, Br(t30, n).escape, e)
                       ELSE t30
              ELSE t2
    IN  <<SetChild(t3, n, slot, nn), nn>>

RECURSIVE climb_to_bit(_, _, _)
climb_to_bit(t, n, pos) ==
    IF Br(t, n).bit > pos THEN climb_to_bit(t, Br(t, n).parent, pos) ELSE n

insert_prefix(t, addedindex, addedslot, addedlen, n0, deepestindex, deepestslot, deepestlen) ==
    LET cmp == BitXor(addedslot, deepestslot)
        pos == first_bit(cmp)
    IN  IF pos > deepestlen /\ deepestlen < addedlen
        THEN IF BChild(Br(t, n0), addedslot) = Br(t, n0).escape
             THEN SetChild(t, n0, addedslot, addedindex)
             ELSE insert_prefix_branching(t, n0, deepestindex, addedindex,
                                          deepestlen + 1, addedslot)[1]
        ELSE IF pos > addedlen
        THEN LET pos2 == addedlen + 1
                 n == climb_to_bit(t, n0, pos2)
             IN  IF Br(t, n).bit < pos2
                 THEN insert_prefix_branching(t, n, addedindex,
                          BChild(Br(t, n), deepestslot), pos2, deepestslot)[1]
                 ELSE replace_escape_leaf(
                          debug_assert(t, "insert_prefix: bit == pos", Br(t, n).bit = pos2),
                          n, Br(t, n).escape, addedindex)
        ELSE LET n == climb_to_bit(t, n0, pos)
                 r == IF Br(t, n).bit < pos
                      THEN insert_prefix_branching(t, n, Br(t, n).escape,
                               BChild(Br(t, n), deepestslot), pos, deepestslot)
                      ELSE <<t, n>>
                 t1 == r[1]
                 n1 == r[2]
                 t2 == debug_assert(
                           debug_assert(t1, "insert_prefix: bit == pos", Br(t1, n1).bit = pos),
                           "insert_prefix: discriminant",
                           BChild(Br(t1, n1), addedslot) # BChild(Br(t1, n1), deepestslot))
             IN  SetChild(t2, n1, addedslot, addedindex)

\* the walk up of insert and replace: <<leaf it stops on, read outside arena>>
RECURSIVE insert_walk(_, _, _, _, _, _, _)
insert_walk(t, lv, b, l, addedpfx, g, u) ==
    LET u1 == u \/ ~InArena(lv, l)
    IN  IF covering(PfxAt(lv, l, g), addedpfx) = "NoCover"
        THEN IF l = RootLeaf THEN <<l, u1>>
             ELSE insert_walk(t, lv, Br(t, b).parent,
                              Br(t, Br(t, b).parent).escape, addedpfx, g, u1)
        ELSE <<l, u1>>

\* a walk up that stays on the escape of the deepest branching
lookup_walk_stays(t, lv, n, l, k, g, u) == <<n, l, u \/ ~InArena(lv, l)>>

\* the walk up of inner_lookup: <<branching, leaf, read outside arena>>;
\* the root leaf ends it (there the code would spin on the root for ever)
RECURSIVE lookup_walk(_, _, _, _, _, _, _)
lookup_walk(t, lv, n, l, k, g, u) ==
    LET u1 == u \/ ~InArena(lv, l)
    IN  IF covers(PfxAt(lv, l, g), k) \/ (n = RootBranching /\ l = RootLeaf)
        THEN <<n, l, u1>>
        ELSE lookup_walk(t, lv, Br(t, n).parent,
                         Br(t, Br(t, n).parent).escape, k, g, u1)

inner_lookup(t, lv, k, g) ==
    LET c == search_deepest_candidate(t, bitslot_trunc(k))
        n == c[1]
        l == c[2]
    IN  IF l # Br(t, n).escape
        THEN IF covers(PfxAt(lv, l, g), k) THEN <<n, l, ~InArena(lv, l)>>
             ELSE lookup_walk(t, lv, n, Br(t, n).escape, k, g, ~InArena(lv, l))
        ELSE lookup_walk(t, lv, n, l, k, g, FALSE)

--------------------------------------------------------------------------
(* Results of a call *)

None == [tag |-> "None", pfx |-> RootPrefix, val |-> 0]

Some(p, v) == [tag |-> "Some", pfx |-> p, val |-> v]

Panic == [tag |-> "Panic", pfx |-> RootPrefix, val |-> 0]

Hang == [tag |-> "Hang", pfx |-> RootPrefix, val |-> 0]

\* what a call leaves behind: the branchings, the leaves, the result, whether
\* the debug assertions held and whether it went outside the leaf arena
Outcome(t, lv, res, u) ==
    [br |-> t.br, lv |-> lv, res |-> res, ok |-> t.ok, ub |-> u,
     failed |-> t.failed]

Tree(br) == [br |-> br, ok |-> TRUE, failed |-> {}]

--------------------------------------------------------------------------
(* RadixTrie::insert, replace, get, lookup, remove *)

\* insert (whole = FALSE) and replace (whole = TRUE) differ in the SameRange arm
insert_or_replace(br, lv, k, v, g, whole) ==
    LET lvp == Append(lv, Leaf(k, v))
        addedleaf == LeafIndex(Len(lv))
        t == Tree(br)
        c == search_deepest_candidate(t, bitslot(k))
        deepestbranching == c[1]
        deepestleaf == c[2]
        first == deepestleaf # Br(t, deepestbranching).escape
        l0 == IF first /\ ~covers(PfxAt(lvp, deepestleaf, g), k)
              THEN Br(t, deepestbranching).escape ELSE deepestleaf
        w == insert_walk(t, lvp, deepestbranching, l0, k, g,
                         first /\ ~InArena(lvp, deepestleaf))
        l == w[1]
        cov == covering(PfxAt(lvp, l, g), k)
        deepest == PfxAt(lvp, deepestleaf, g)
    IN  CASE cov = "NoCover" ->
                 Outcome(t, lvp, Panic, w[2])
          [] cov = "WiderRange" ->
                 Outcome(insert_prefix(t, addedleaf, bitslot(k), k.len,
                                       deepestbranching, deepestleaf,
                                       bitslot(deepest), deepest.len),
                         lvp, None, w[2] \/ ~InArena(lvp, deepestleaf))
          [] OTHER ->
                 LET old == LeafAt(lv, l, g)
                     new == IF whole THEN Leaf(k, v) ELSE Leaf(old.prefix, v)
                 IN  Outcome(t,
                             IF InArena(lv, l)
                             THEN [lv EXCEPT ![LeafPos(l) + 1] = new] ELSE lv,
                             Some(IF whole THEN old.prefix ELSE RootPrefix, old.value),
                             w[2] \/ ~InArena(lv, l))

\* an insert that keeps the value of a prefix already stored
insert_keeps(br, lv, k, v, g) ==
    [insert_or_replace(br, lv, k, v, g, FALSE)
        EXCEPT !.lv = IF Len(@) = Len(lv) THEN lv ELSE @]

insert(br, lv, k, v, g) == insert_or_replace(br, lv, k, v, g, FALSE)

replace(br, lv, k, v, g) == insert_or_replace(br, lv, k, v, g, TRUE)

lookup(br, lv, k, g) ==
    LET r == inner_lookup(Tree(br), lv, k, g)
        leaf == LeafAt(lv, r[2], g)
    IN  Outcome(Tree(br), lv, Some(leaf.prefix, leaf.value), r[3])

get(br, lv, k, g) ==
    LET r == inner_lookup(Tree(br), lv, k, g)
        leaf == LeafAt(lv, r[2], g)
    IN  Outcome(Tree(br), lv,
                IF k.len = leaf.prefix.len THEN Some(leaf.prefix, leaf.value)
                ELSE None,
                r[3])

\* RadixTrie::len
len(lv) == Len(lv)

\* RadixTrie::iter: the leaves in the order of the arena
iter(lv) == lv

\* a removal that moves the last leaf to index 0
swap_remove_to_front(lv, i) ==
    SubSeq([lv EXCEPT ![1] = lv[Len(lv)]], 1, Len(lv) - 1)

\* Vec::swap_remove
swap_remove(lv, i) ==
    SubSeq([lv EXCEPT ![i + 1] = lv[Len(lv)]], 1, Len(lv) - 1)

\* remove: "so we should climb to its first appearance"; <<branching, spins>>
RECURSIVE climb_escape(_, _, _)
climb_escape(t, b, l) ==
    IF Br(t, Br(t, b).parent).escape = l
    THEN IF b = RootBranching THEN <<b, TRUE>>
         ELSE climb_escape(t, Br(t, b).parent, l)
    ELSE <<b, FALSE>>

\* remove: "climb up the escape chain"; <<tree, spins>>
RECURSIVE reindex_escape(_, _, _, _)
reindex_escape(t, bb, lastleaf, l) ==
    IF Br(t, bb).escape = lastleaf
    THEN IF bb = RootBranching /\ l = lastleaf THEN <<t, TRUE>>
         ELSE reindex_escape([t EXCEPT !.br[bb + 1].escape = l],
                             Br(t, bb).parent, lastleaf, l)
    ELSE <<t, FALSE>>

\* remove, "effective removal of the leaf": re is the reindexed tree
remove_swap(lv, l, u, re) ==
    IF re[2] THEN Outcome(re[1], lv, Hang, u)
    ELSE IF ~InArena(lv, l) THEN Outcome(re[1], lv, Panic, u)
    ELSE Outcome(re[1], swap_remove(lv, LeafPos(l)),
                 Some(RootPrefix, lv[LeafPos(l) + 1].value), u)

\* remove, "reindex the leaf which will be swapped with the removed one":
\* rr is what inner_lookup finds for the last leaf
remove_reindex(t, lv, l, g, u, lastleaf, rr) ==
    remove_swap(lv, l, u \/ rr[3],
        reindex_escape(
            [debug_assert(t, "remove: lastleaf len",
                          PfxAt(lv, lastleaf, g).len = PfxAt(lv, rr[2], g).len)
                EXCEPT !.br[rr[1] + 1].child =
                          << IF @[1] = lastleaf THEN l ELSE @[1],
                             IF @[2] = lastleaf THEN l ELSE @[2] >>],
            rr[1], lastleaf, l))

\* remove, once the leaf is unlinked from the tree t
remove_unlinked(t, lv, l, g, u) ==
    remove_reindex(t, lv, l, g, u, LeafIndex(Len(lv) - 1),
        inner_lookup(t, lv, PfxAt(lv, LeafIndex(Len(lv) - 1), g), g))

\* remove, "the node to suppress is an escape node": up is its first appearance
remove_escape(t, lv, l, g, u, up) ==
    IF up[2] THEN Outcome(t, lv, Hang, u)
    ELSE remove_unlinked(
             replace_escape_leaf(t, up[1], l, Br(t, Br(t, up[1]).parent).escape),
             lv, l, g, u)

\* a remove that treats the root leaf as any other escape leaf
remove_found_any(t, lv, k, g, r) ==
    IF k.len # PfxAt(lv, r[2], g).len THEN Outcome(t, lv, None, r[3])
    ELSE IF r[2] = Br(t, r[1]).escape
    THEN remove_escape(t, lv, r[2], g, r[3], climb_escape(t, r[1], r[2]))
    ELSE remove_unlinked(SetChild(t, r[1], bitslot(k), Br(t, r[1]).escape),
                         lv, r[2], g, r[3])

\* remove, r being what inner_lookup finds for k
remove_found(t, lv, k, g, r) ==
    IF k.len # PfxAt(lv, r[2], g).len THEN Outcome(t, lv, None, r[3])
    ELSE IF r[2] = Br(t, r[1]).escape
    THEN IF r[2] = RootLeaf THEN Outcome(t, lv, Panic, r[3])
         ELSE remove_escape(t, lv, r[2], g, r[3], climb_escape(t, r[1], r[2]))
    ELSE remove_unlinked(SetChild(t, r[1], bitslot(k), Br(t, r[1]).escape),
                         lv, r[2], g, r[3])

remove(br, lv, k, g) ==
    remove_found(Tree(br), lv, k, g, inner_lookup(Tree(br), lv, k, g))

--------------------------------------------------------------------------
(* Level-compressed trie: src/src/trie/lctrie.rs and the compression      *)
(* levels of src/src/trie/patricia.rs.  The arena (memzone) is a function *)
(* from the offset of a node to the node, with its length and capacity.   *)

\* size_of::<Compressed>() / size_of::<NodeIndex>()
HeaderSlots == 3

\* the u16 the letters are computed in
last_16_bits(x) == x % Pow2(16)

Min(a, b) == IF a < b THEN a ELSE b

RECURSIVE count_compressed_branching(_, _, _)
count_compressed_branching(t, b, p) ==
    LET Sub(c) == IF is_branching(c) /\ Br(t, c).bit <= p
                  THEN count_compressed_branching(t, Br(t, c), p)
                  ELSE 0
    IN  1 + Sub(b.child[1]) + Sub(b.child[2])

\* a depth that also merges the branchings having an escape leaf of their own
RECURSIVE compression_level_max_any(_, _, _, _)
compression_level_max_any(t, b, max, stop) ==
    IF max = 0 THEN 0
    ELSE IF is_branching(b.child[1])
    THEN IF is_branching(b.child[2])
         THEN LET l0 == compression_level_max_any(t, Br(t, b.child[1]), max - 1, stop)
                  l1 == compression_level_max_any(t, Br(t, b.child[2]), max - 1, stop)
              IN  Min(max, 1 + Min(l0, l1))
         ELSE 1 + compression_level_max_any(t, Br(t, b.child[1]), max - 1, stop)
    ELSE IF is_branching(b.child[2])
    THEN 1 + compression_level_max_any(t, Br(t, b.child[2]), max - 1, stop)
    ELSE 1

RECURSIVE compression_level_max(_, _, _, _)
compression_level_max(t, b, max, stop) ==
    IF max = 0 THEN 0
    ELSE IF b.escape # stop THEN 0
    ELSE IF is_branching(b.child[1])
    THEN IF is_branching(b.child[2])
         THEN LET l0 == compression_level_max(t, Br(t, b.child[1]), max - 1, stop)
                  l1 == compression_level_max(t, Br(t, b.child[2]), max - 1, stop)
              IN  Min(max, 1 + Min(l0, l1))
         ELSE 1 + compression_level_max(t, Br(t, b.child[1]), max - 1, stop)
    ELSE IF is_branching(b.child[2])
    THEN 1 + compression_level_max(t, Br(t, b.child[2]), max - 1, stop)
    ELSE 1

\* a fold that takes every step passing the threshold, whether or not it
\* counts more branchings than the step before
RECURSIVE compression_fold_any(_, _, _, _, _, _, _)
compression_fold_any(t, b, comp, j, max, level, children) ==
    IF j >= max THEN level
    ELSE LET cc == count_compressed_branching(t, b, b.bit + j)
         IN  IF cc < (Pow2(j) \div Pow2(comp)) \div 2 THEN level
             ELSE compression_fold_any(t, b, comp, j + 1, max, j, cc)

\* the try_fold of compression_level, from step j on
RECURSIVE compression_fold(_, _, _, _, _, _, _)
compression_fold(t, b, comp, j, max, level, children) ==
    IF j >= max THEN level
    ELSE LET cc == count_compressed_branching(t, b, b.bit + j)
         IN  IF cc < (Pow2(j) \div Pow2(comp)) \div 2 THEN level
             ELSE IF cc > children
             THEN compression_fold(t, b, comp, j + 1, max, j, cc)
             ELSE compression_fold(t, b, comp, j + 1, max, level, children)

compression_level(t, b, comp) ==
    compression_fold(t, b, comp, 1, compression_level_max(t, b, 15, b.escape),
                     0, count_compressed_branching(t, b, b.bit))

\* Compressed::new followed by the filling of the children by push
Compressed(shift, size, escape, parent) ==
    [shift |-> shift, size |-> size, mask |-> Pow2(size) - 1,
     escape |-> escape, parent |-> parent,
     child |-> [i \in 1 .. Pow2(size) |-> escape]]

children(c) == Pow2(c.size)

letter(c, slot) ==
    BitAnd(c.mask, last_16_bits(Shr(slot, W - c.shift - c.size)))

offset(n) == n + HeaderSlots

\* an arena with the slots of one header for each branching
with_capacity_headers(n) == (n + 1) * HeaderSlots

\* CompressedTree::with_capacity: the capacity of the arena
with_capacity(n) == (n + 1) * (2 * HeaderSlots)

\* a compression under way: the arena, the branchings already compressed
\* (-1 is None), how it failed ("" if it has not), debug assertions, undefined
\* reads
NewCompressed(n) ==
    [zone |-> [x \in {} |-> 0], len |-> 0, cap |-> with_capacity(n),
     done |-> [x \in 1 .. n |-> -1], fail |-> "", ok |-> TRUE, ub |-> FALSE]

\* CompressedTree::push; the index of the added node is the former length
CPush(st, parent, escape, shift, size) ==
    IF st.cap < st.len + offset(Pow2(size)) \/ size > 16
    THEN [st EXCEPT !.fail = "Panic"]
    ELSE [st EXCEPT !.zone = st.zone @@ (st.len :> Compressed(shift, size, escape, parent)),
                    !.len = st.len + offset(Pow2(size))]

SetCChild(st, current, n, x) ==
    [st EXCEPT !.zone[current].child[n + 1] = x]

\* compute_compressed_child: "il se peut qu'il y ait une pile d'escape a
\* tester"; <<leaf, how it failed, read outside arena>>.  Once b is the root
\* the loop repeats itself: fuel is the steps in which it can still end.
RECURSIVE escape_stack(_, _, _, _, _, _, _, _, _)
escape_stack(t, lv, c, b, thechild, child, fuel, g, u) ==
    LET shft == W - c.shift - c.size
        matching == BitAnd(last_16_bits(Shr(bitslot(PfxAt(lv, thechild, g)), shft)),
                           c.mask)
        u1 == u \/ ~InArena(lv, thechild)
        up == Br(t, b).escape
    IN  IF matching = child THEN <<thechild, "", u1>>
        ELSE IF fuel = 0 THEN <<thechild, "Hang", u1>>
        ELSE escape_stack(t, lv, c, Br(t, b).parent, up,
                 BitAnd(child, last_16_bits(Shr(bitmask(PfxAt(lv, up, g)), shft))),
                 fuel - 1, g, u1)

RECURSIVE compress(_, _, _, _, _, _, _)
RECURSIVE compute_compressed_child(_, _, _, _, _, _, _, _, _, _)
RECURSIVE compress_children(_, _, _, _, _, _, _, _)

\* the compressed node shifted by the bit of the branching, not the bit before
compress_at_bit(st, t, lv, b, parent, g, comp) ==
    LET compression == compression_level(t, Br(t, b), comp)
        shift == Br(t, b).bit
        current == st.len
        st1 == CPush(st, parent, Br(t, b).escape, shift, compression + 1)
    IN  IF st.fail # "" THEN <<st, current>>
        ELSE IF st1.fail # "" THEN <<st1, current>>
        ELSE <<compress_children([st1 EXCEPT !.done[b + 1] = current],
                                 t, lv, current, 0, b, g, comp), current>>

\* the pair (compression, index of the compressed node)
compress(st, t, lv, b, parent, g, comp) ==
    LET compression == compression_level(t, Br(t, b), comp)
        shift == Br(t, b).bit
        current == st.len
        st1 == CPush(st, parent, Br(t, b).escape, shift - 1, compression + 1)
    IN  IF st.fail # "" THEN <<st, current>>
        ELSE IF st1.fail # "" THEN <<st1, current>>
        ELSE <<compress_children([st1 EXCEPT !.done[b + 1] = current],
                                 t, lv, current, 0, b, g, comp), current>>

\* (0..bb.children()).for_each(...) of compress, from child i on
compress_children(st, t, lv, current, i, b, g, comp) ==
    IF st.fail # "" \/ i >= children(st.zone[current]) THEN st
    ELSE compress_children(
             compute_compressed_child(st, t, lv, current, i, 1, b, b, g, comp),
             t, lv, current, i + 1, b, g, comp)

compute_compressed_child(st, t, lv, current, currchild, depth, start, b, g, comp) ==
    LET c == st.zone[current]
        st0 == [st EXCEPT !.ok = st.ok /\ Br(t, start).escape = Br(t, b).escape]
        thechild == IF BitAnd(currchild, Pow2(c.size - depth)) = 0
                    THEN Br(t, b).child[1] ELSE Br(t, b).child[2]
    IN  IF st.fail # "" THEN st
        ELSE IF is_leaf(thechild)
        THEN LET shft == W - c.shift - c.size
                 child == BitAnd(last_16_bits(Shr(bitmask(PfxAt(lv, thechild, g)), shft)),
                                 currchild)
                 r == escape_stack(t, lv, c, b, thechild, child,
                                   (Len(t.br) + 1) * (W + 1), g, FALSE)
             IN  [SetCChild(st0, current, currchild, r[1])
                     EXCEPT !.fail = r[2], !.ub = st0.ub \/ r[3]]
        ELSE IF st0.done[thechild + 1] # -1
        THEN SetCChild(st0, current, currchild, st0.done[thechild + 1])
        ELSE LET d == Br(t, thechild).bit - c.shift
             IN  IF d > c.size
                 THEN LET r == compress(st0, t, lv, thechild, current, g, comp)
                      IN  IF r[1].fail # "" THEN r[1]
                          ELSE SetCChild(r[1], current, currchild, r[2])
                 ELSE compute_compressed_child(st0, t, lv, current, currchild, d,
                                               start, thechild, g, comp)

\* every compressed node keeps the parent it was pushed with
keep_redundant_parent(st, b, esc, up) == st

RECURSIVE skip_redundant_parent(_, _, _, _)
RECURSIVE skip_children(_, _, _, _, _)

skip_redundant_parent(st, b, esc, up) == skip_children(st, b, esc, up, 0)

\* (0..self[b].children()).for_each(...) of skip_redundant_parent, from i on
skip_children(st, b, esc, up, i) ==
    IF i >= children(st.zone[b]) THEN st
    ELSE LET bb == st.zone[b].child[i + 1]
         IN  IF is_branching(bb)
             THEN IF st.zone[bb].escape = esc
                  THEN skip_children(
                           skip_redundant_parent(
                               [st EXCEPT !.zone[bb].parent = up], bb, esc, up),
                           b, esc, up, i + 1)
                  ELSE skip_children(
                           skip_redundant_parent(st, bb, st.zone[bb].escape,
                                                 st.zone[bb].parent),
                           b, esc, up, i + 1)
             ELSE skip_children(st, b, esc, up, i + 1)

\* LevelCompressedTrie::new
LevelCompressedTrie(br, lv, g) ==
    LET r == compress(NewCompressed(Len(br)), Tree(br), lv,
                      RootBranching, RootBranching, g, 0)
    IN  IF r[1].fail # "" THEN r[1]
        ELSE skip_redundant_parent(r[1], RootBranching, RootLeaf, RootBranching)

\* the descent of get and inner_lookup: <<branching, leaf, ends>>
RECURSIVE lc_descend(_, _, _, _)
lc_descend(zone, b, slot, fuel) ==
    LET n == zone[b].child[letter(zone[b], slot) + 1]
    IN  IF is_leaf(n) THEN <<b, n, TRUE>>
        ELSE IF fuel = 0 THEN <<b, n, FALSE>>
        ELSE lc_descend(zone, n, slot, fuel - 1)

\* the climb of inner_lookup: <<leaf, read outside arena>>
RECURSIVE lc_climb(_, _, _, _, _, _, _)
lc_climb(zone, lv, b, l, k, g, u) ==
    LET u1 == u \/ ~InArena(lv, l)
    IN  IF covers(PfxAt(lv, l, g), k) \/ (b = RootBranching /\ l = RootLeaf)
        THEN <<l, u1>>
        ELSE lc_climb(zone, lv, zone[b].parent, zone[zone[b].parent].escape,
                      k, g, u1)

lc_inner_lookup(zone, lv, k, g) ==
    LET d == lc_descend(zone, RootBranching, bitslot(k), Cardinality(DOMAIN zone))
        b == d[1]
        l == d[2]
    IN  IF l # zone[b].escape
        THEN IF covers(PfxAt(lv, l, g), k) THEN <<l, ~InArena(lv, l)>>
             ELSE lc_climb(zone, lv, b, zone[b].escape, k, g, ~InArena(lv, l))
        ELSE lc_climb(zone, lv, b, l, k, g, FALSE)

\* LevelCompressedTrie::lookup: <<result, read outside arena>>
lc_lookup(zone, lv, k, g) ==
    LET d == lc_descend(zone, RootBranching, bitslot(k), Cardinality(DOMAIN zone))
        r == lc_inner_lookup(zone, lv, k, g)
        leaf == LeafAt(lv, r[1], g)
    IN  IF ~d[3] THEN <<Hang, FALSE>>
        ELSE <<Some(leaf.prefix, leaf.value), r[2]>>

\* LevelCompressedTrie::get: <<result, read outside arena>>
lc_get(zone, lv, k, g) ==
    LET d == lc_descend(zone, RootBranching, bitslot(k), Cardinality(DOMAIN zone))
        leaf == LeafAt(lv, d[2], g)
    IN  IF ~d[3] THEN <<Hang, FALSE>>
        ELSE <<IF leaf.prefix = k THEN Some(leaf.prefix, leaf.value) ELSE None,
               ~InArena(lv, d[2])>>

--------------------------------------------------------------------------
(* The state machine *)

Values == 1 .. MaxVal

\* the value of a set member: RTrieSet<K> is RTrieMap<K, ()>
Unit == 0

\* what an out-of-arena read may yield
Garbage == { Leaf(p, v) : p \in Prefixes, v \in 0 .. MaxVal }

\* the leaves a call may read: any, once it reads outside the arena (o is the
\* outcome of the call when such a read yields NoLeaf)
NoLeaf == Leaf(RootPrefix, 0)

Reads(o) == IF o.ub THEN Garbage ELSE { NoLeaf }

NoLC == [built |-> FALSE]

\* a call that changes the trie
Call(op, k, v, res) == [op |-> op, key |-> k, val |-> v, res |-> res]

\* a call that reads the trie
Query(op, k, res) == [op |-> op, key |-> k, res |-> res]

NoQuery == Query("none", RootPrefix, None)

\* no prefix is being built, converted or compared
NoPx == [op |-> "none"]

\* the prefix with the range of k and no bit set below its length
Trunc(k) == Pfx(bitslot_trunc(k), k.len)

\* the twin trie after a call; bad once a call on it has failed
Twin(o) ==
    [br |-> o.br, lv |-> o.lv,
     bad |-> twin.bad \/ o.ub \/ o.res.tag \in {"Panic", "Hang"}]

Init ==
    /\ branching = NewBranching
    /\ leaves = << Leaf(RootPrefix, Unit) >>
    /\ last = Call("new", RootPrefix, 0, None)
    /\ ret = NoQuery
    /\ stored = { Leaf(RootPrefix, Unit) }
    /\ nrem = 0
    /\ dbg = TRUE
    /\ failed = {}
    /\ ub = FALSE
    /\ lc = NoLC
    /\ twin = [br |-> NewBranching, lv |-> << Leaf(RootPrefix, Unit) >>,
               bad |-> FALSE]
    /\ px = NoPx

\* the trie can still be called: no panic, no endless loop, no undefined access
Sound == last.res.tag \notin {"Panic", "Hang"} /\ ~ub

\* A query leaves the trie as it is, so a run ends with the one query it
\* asks: the calls that could follow would only lead where they lead without it.
Asked == ret.op # "none"

Live == Sound /\ ~lc.built /\ ~Asked

Same(k) == { e \in stored : covers_equally(e.prefix, k) }

Apply(o) ==
    /\ branching' = o.br
    /\ leaves' = o.lv
    /\ dbg' = (dbg /\ o.ok)
    /\ failed' = failed \cup o.failed
    /\ ub' = (ub \/ o.ub)

\* insert into a trie that holds fewer than max leaves
InsertWithin(k, v, max) ==
    /\ Live /\ Len(leaves) < max
    /\ \E g \in Reads(insert(branching, leaves, k, v, NoLeaf)) :
          LET o == insert(branching, leaves, k, v, g)
          IN  Apply(o) /\ last' = Call("insert", k, v, o.res)
    /\ twin' = Twin(insert(twin.br, twin.lv, Trunc(k), v, NoLeaf))
    /\ stored' = IF Same(k) = {} THEN stored \cup { Leaf(k, v) }
                 ELSE (stored \ Same(k)) \cup { Leaf(e.prefix, v) : e \in Same(k) }
    /\ ret' = NoQuery
    /\ UNCHANGED <<nrem, lc, px>>

Insert(k, v) == InsertWithin(k, v, MaxLeaves)

Replace(k, v) ==
    /\ Live /\ Len(leaves) < MaxLeaves
    /\ \E g \in Reads(replace(branching, leaves, k, v, NoLeaf)) :
          LET o == replace(branching, leaves, k, v, g)
          IN  Apply(o) /\ last' = Call("replace", k, v, o.res)
    /\ twin' = Twin(replace(twin.br, twin.lv, Trunc(k), v, NoLeaf))
    /\ stored' = (stored \ Same(k)) \cup { Leaf(k, v) }
    /\ ret' = NoQuery
    /\ UNCHANGED <<nrem, lc, px>>

\* a remove of the root prefix ends the run (it panics, or reads outside the
\* arena), so it needs no budget
RemoveWithin(k, max) ==
    /\ Live /\ (nrem < max \/ k.len = 0)
    /\ \E g \in Reads(remove(branching, leaves, k, NoLeaf)) :
          LET o == remove(branching, leaves, k, g)
          IN  Apply(o) /\ last' = Call("remove", k, 0, o.res)
    /\ twin' = Twin(remove(twin.br, twin.lv, Trunc(k), NoLeaf))
    /\ stored' = IF k.len = 0 THEN stored ELSE stored \ Same(k)
    /\ nrem' = nrem + 1
    /\ ret' = NoQuery
    /\ UNCHANGED <<lc, px>>

Remove(k) == RemoveWithin(k, MaxRemoves)

Lookup(k) ==
    /\ Live
    /\ \E g \in Reads(lookup(branching, leaves, k, NoLeaf)) :
          LET o == lookup(branching, leaves, k, g)
          IN  Apply(o) /\ ret' = Query("lookup", k, o.res)
    /\ UNCHANGED <<stored, nrem, lc, last, twin, px>>

Get(k) ==
    /\ Live
    /\ \E g \in Reads(get(branching, leaves, k, NoLeaf)) :
          LET o == get(branching, leaves, k, g)
          IN  Apply(o) /\ ret' = Query("get", k, o.res)
    /\ UNCHANGED <<stored, nrem, lc, last, twin, px>>

\* RTrieMap::compress: the radix trie is consumed, its leaves are moved
Compress ==
    /\ Live
    /\ \E g \in Reads(LevelCompressedTrie(branching, leaves, NoLeaf)) :
          LET st == LevelCompressedTrie(branching, leaves, g)
          IN  /\ lc' = [built |-> TRUE, zone |-> st.zone, len |-> st.len,
                        cap |-> st.cap]
              /\ last' = Call("compress", RootPrefix, 0,
                              IF st.fail = "Panic" THEN Panic
                              ELSE IF st.fail = "Hang" THEN Hang ELSE None)
              /\ dbg' = (dbg /\ st.ok)
              /\ ub' = (ub \/ st.ub)
    /\ ret' = NoQuery
    /\ UNCHANGED <<branching, leaves, stored, nrem, twin, px, failed>>

LCLookup(k) ==
    /\ Sound /\ lc.built /\ ~Asked
    /\ \E g \in Reads([ub |-> lc_lookup(lc.zone, leaves, k, NoLeaf)[2]]) :
          LET r == lc_lookup(lc.zone, leaves, k, g)
          IN  ret' = Query("lclookup", k, r[1]) /\ ub' = (ub \/ r[2])
    /\ UNCHANGED <<branching, leaves, stored, nrem, lc, last, dbg, twin, px, failed>>

LCGet(k) ==
    /\ Sound /\ lc.built /\ ~Asked
    /\ \E g \in Reads([ub |-> lc_get(lc.zone, leaves, k, NoLeaf)[2]]) :
          LET r == lc_get(lc.zone, leaves, k, g)
          IN  ret' = Query("lcget", k, r[1]) /\ ub' = (ub \/ r[2])
    /\ UNCHANGED <<branching, leaves, stored, nrem, lc, last, dbg, twin, px, failed>>

Next ==
    \/ \E k \in Keys : Insert(k, Unit)
    \/ \E k \in Keys \cup { RootPrefix } : Remove(k)
    \/ \E k \in Truncated : Lookup(k)
    \/ \E k \in Truncated : Get(k)

Spec == Init /\ [][Next]_vars

\* a set built by inserts only, of prefixes with and without host bits
NextIns ==
    \/ \E k \in Truncated \cup HostKeys : Insert(k, Unit)
    \/ \E k \in Truncated : Lookup(k)
    \/ \E k \in Truncated : Get(k)

SpecIns == Init /\ [][NextIns]_vars

\* a map of values
NextMap ==
    \/ \E k \in MapKeys, v \in Values : Insert(k, v)
    \/ \E k \in MapKeys : Remove(k)
    \/ \E k \in Truncated : Get(k)

SpecMap == Init /\ [][NextMap]_vars

\* a set built by inserts only from prefixes without host bits, then compressed
NextLC ==
    \/ \E k \in Truncated : Insert(k, Unit)
    \/ Compress
    \/ \E k \in Truncated : LCLookup(k)
    \/ \E k \in Truncated : LCGet(k)

SpecLC == Init /\ [][NextLC]_vars

\* a set built by any calls, then compressed
NextAll ==
    \/ \E k \in AllKeys : Insert(k, Unit)
    \/ \E k \in AllKeys : Replace(k, Unit)
    \/ \E k \in AllKeys : Remove(k)
    \/ Compress
    \/ \E k \in Prefixes : Lookup(k)
    \/ \E k \in Prefixes : LCLookup(k)

SpecAll == Init /\ [][NextAll]_vars

\* a map built by any calls, of prefixes with and without host bits
RepKeys == { Pfx(0, 1), Pfx(3, 1), Pfx(2, 3), Pfx(1, 0) }

NextRep ==
    \/ \E k \in RepKeys, v \in Values : Insert(k, v)
    \/ \E k \in RepKeys, v \in Values : Replace(k, v)
    \/ \E k \in RepKeys : Remove(k)
    \/ \E k \in RepKeys : Get(k)

SpecRep == Init /\ [][NextRep]_vars

\* two prefixes nested above two sibling prefixes
DeepKeys == { Pfx(0, 1), Pfx(2, 2), Pfx(2, 3), Pfx(3, 3) }

\* a set of nested prefixes built by inserts and removes, then compressed
NextDeep ==
    \/ \E k \in DeepKeys : InsertWithin(k, Unit, MaxDeepLeaves)
    \/ \E k \in DeepKeys : Remove(k)
    \/ Compress
    \/ \E k \in Truncated : LCLookup(k)

SpecDeep == Init /\ [][NextDeep]_vars

\* a set of prefixes that keep their host bits, with two removes: the keys of
\* RepKeys, 001/0 being the root prefix with a host bit
NextHost ==
    \/ \E k \in RepKeys : Insert(k, Unit)
    \/ \E k \in RepKeys : RemoveWithin(k, MaxHostRemoves)

SpecHost == Init /\ [][NextHost]_vars

\* a set built by any calls and compressed, of prefixes that keep their host
\* bits: 101/2 over 100/3, 110/1 and the root prefix 001/0
BuildKeys == { Pfx(5, 2), Pfx(4, 3), Pfx(6, 1), Pfx(1, 0) }

NextBuild ==
    \/ \E k \in BuildKeys : Insert(k, Unit)
    \/ \E k \in BuildKeys : Replace(k, Unit)
    \/ \E k \in BuildKeys : Remove(k)
    \/ Compress

SpecBuild == Init /\ [][NextBuild]_vars

\* a set built by inserts and removes and compressed, of prefixes that give
\* two branchings on bit 3 under one on bit 2: 0/1 over 000/3 and 001/3,
\* 01/2 over 010/3
MaxChainLeaves == 6

ChainKeys == { Pfx(0, 1), Pfx(0, 3), Pfx(1, 3), Pfx(2, 2), Pfx(2, 3) }

NextChain ==
    \/ \E k \in ChainKeys : InsertWithin(k, Unit, MaxChainLeaves)
    \/ \E k \in ChainKeys : Remove(k)
    \/ Compress

SpecChain == Init /\ [][NextChain]_vars

--------------------------------------------------------------------------
(* What the documentation promises, in terms of the history variable       *)
(* stored.                                                                 *)

\* the stored prefixes that cover q
Covering(q) == { e \in stored : covers(e.prefix, q) }

\* the longest prefix match of q
Longest(q) == { e \in Covering(q) : \A f \in Covering(q) : f.prefix.len <= e.prefix.len }

\* the call returned
Returned == last.res.tag \notin {"Panic", "Hang"}

\* C1: on a radix trie built by inserts only, lookup(q) returns the stored
\* prefix of greatest length among those covering q (the root prefix when
\* no other stored prefix covers q), for address and prefix queries alike.
C1_InsertOnlyLookupIsLongestMatch ==
    ret.op = "lookup" =>
        /\ ret.res.tag = "Some"
        /\ Leaf(ret.res.pfx, ret.res.val) \in Longest(ret.key)

\* a lookup answered by a stored prefix longer than another one that covers
\* the query too, in a full trie
C1_Witness ==
    /\ ret.op = "lookup" /\ ret.res.tag = "Some"
    /\ len(leaves) = MaxLeaves
    /\ Cardinality(Covering(ret.key)) >= 3
    /\ ret.res.pfx.len >= 2

\* C2: after any sequence of inserts and removes, lookup(q) returns the
\* stored prefix (inserted and not removed since, or the root) of maximum
\* length among those whose covering of q is WiderRange or SameRange.
C2_LookupIsLongestMatchAfterRemoves ==
    ret.op = "lookup" =>
        /\ ret.res.tag = "Some"
        /\ \E e \in Longest(ret.key) : e.prefix = ret.res.pfx

\* C3: for any radix trie reached by insert, replace and remove, of any
\* prefix type, and any query, the lookup on the LC-trie built from it returns
\* the prefix the lookup on the radix trie returns.
C3_CompressionPreservesLookup ==
    ret.op = "lclookup" =>
        \E g \in Garbage :
            ret.res.pfx = lookup(branching, leaves, ret.key, g).res.pfx

\* C4: for a radix trie built by inserts only from prefixes with no bit set
\* below their length, the LC-trie answers every address query and every
\* prefix query as the radix trie did before compression.
C4_CompressedInsertOnlyLookupAgrees ==
    ret.op = "lclookup" =>
        ret.res = lookup(branching, leaves, ret.key, NoLeaf).res

\* a query answered by a stored prefix through a root node compressed over
\* more than one bit, another stored prefix covering the query too
C4_Witness ==
    /\ ret.op = "lclookup" /\ ret.res.tag = "Some"
    /\ lc.zone[RootBranching].size >= 2
    /\ Cardinality(Covering(ret.key)) >= 3
    /\ ret.res.pfx.len >= 2

\* C5: on a radix trie, after any inserts and removes, get(p) is Some exactly
\* when a prefix covering p equally is stored (or p is the root prefix); a
\* shorter stored prefix that merely covers p never makes it Some.
C5_GetIsSomeIffStored ==
    ret.op = "get" =>
        /\ ret.res.tag \in {"Some", "None"}
        /\ ret.res.tag = "Some" <=> Same(ret.key) # {}

\* C6: when remove(p) returned Some, a following lookup(p) returns the
\* longest prefix still stored that covers p.
C6_LookupAfterRemoveIsNearestCover ==
    (/\ ret.op = "lookup"
     /\ last.op = "remove" /\ last.res.tag = "Some"
     /\ ret.key = last.key) =>
        /\ ret.res.tag = "Some"
        /\ \E e \in Longest(last.key) : e.prefix = ret.res.pfx

\* C7, the second insert: an insert(p, w) that follows an insert(p, v)
\* returns Some(v) and leaves len() as it was; an insert of the root prefix
\* returns the value the root had, the first one too.
C7_SecondInsert ==
    (ret' = NoQuery /\ last'.op = "insert" /\ last'.res.tag # "Panic") =>
        /\ (last.op = "insert" /\ Returned /\ ~ub /\ last.key = last'.key) =>
              /\ last'.res.tag = "Some" /\ last'.res.val = last.val
              /\ len(leaves') = len(leaves)
        /\ last'.key.len = 0 =>
              /\ last'.res.tag = "Some"
              /\ \E e \in stored : e.prefix.len = 0 /\ e.value = last'.res.val
              /\ len(leaves') = len(leaves)

\* C7, the get: once insert(p, w) has returned Some, get(p) yields w
C7_GetAfter ==
    (/\ ret.op = "get"
     /\ last.op = "insert" /\ last.res.tag = "Some" /\ ~ub
     /\ ret.key = last.key) =>
        ret.res.tag = "Some" /\ ret.res.val = last.val

C8_LenCountsStored ==
    Returned => len(leaves) = Cardinality(stored \ Same(RootPrefix)) + 1

\* C9: after any sequence of inserts and removes, iter() yields the root and
\* every inserted and not removed prefix exactly once: none is missing, none
\* appears twice, no removed prefix appears.
C9_IterYieldsStoredOnce ==
    Returned =>
        /\ { iter(leaves)[i].prefix : i \in DOMAIN iter(leaves) }
               = { e.prefix : e \in stored }
        /\ \A i, j \in DOMAIN iter(leaves) :
               iter(leaves)[i].prefix = iter(leaves)[j].prefix => i = j

\* C10: on the LC-trie, get(k) is Some exactly when a prefix equal to k was
\* stored in the source radix trie, also when longer stored prefixes lie
\* beneath k, and None when k is only covered by a shorter stored prefix.
C10_CompressedGetIsSomeIffStored ==
    ret.op = "lcget" =>
        (ret.res.tag = "Some" <=> \E e \in stored : e.prefix = ret.key)

\* C11, a step: a remove of a prefix of length 0 panics and leaves the leaf
\* arena and the branchings as they were.
C11_RemoveRootStep ==
    (last' # last /\ last'.op = "remove" /\ last'.key.len = 0) =>
        /\ last'.res.tag = "Panic"
        /\ branching' = branching /\ leaves' = leaves

\* C11: in every reachable state of a radix trie, remove(q) with q of length
\* 0 panics, before any change to the leaves or to a branching, so the root
\* leaf is never removed.
C11_RemoveRootPanics == [][C11_RemoveRootStep]_vars

\* a remove of the root prefix that panicked, after a remove that succeeded
C11_Witness ==
    /\ last.op = "remove" /\ last.key.len = 0 /\ last.res.tag = "Panic"
    /\ nrem = MaxRemoves + 1 /\ len(leaves) >= 3

\* C12, the replace: it returns the leaf stored for the range of k, as it was
\* stored, or None after adding k when the range was not stored
C12_ReplaceStep ==
    (ret' = NoQuery /\ last'.op = "replace") =>
        IF Same(last'.key) # {}
        THEN /\ \E e \in Same(last'.key) : last'.res = Some(e.prefix, e.value)
             /\ len(leaves') = len(leaves)
        ELSE /\ last'.res = None
             /\ len(leaves') = len(leaves) + 1

\* C12, the get: after replace(k, v) a get of the range of k yields k as it
\* was given, and v
C12_GetAfter ==
    (/\ ret.op = "get" /\ last.op = "replace"
     /\ covers_equally(ret.key, last.key)) =>
        ret.res = Some(last.key, last.val)

\* C12: replace(k, v) returns Some of the previously stored leaf (its prefix
\* as it was stored, host bits included, and its value) when a prefix covering
\* equally k is stored, and makes k the stored prefix a following get returns;
\* when no such prefix is stored it behaves as insert and returns None.
C12_ReplaceReturnsPreviousLeaf == [][C12_ReplaceStep]_vars /\ [](C12_GetAfter)

\* what the LC-trie compressed from the twin trie answers to q
TwinLC(q) ==
    lc_lookup(LevelCompressedTrie(twin.br, twin.lv, NoLeaf).zone, twin.lv,
              q, NoLeaf)[1]

\* C13: two tries built by the same calls from prefixes that pairwise cover
\* equally but differ in the bits below their length answer every query with
\* prefixes that cover equally each other, on the radix trie and on the
\* LC-trie compressed from it.
C13_HostBitsDoNotMatter ==
    ~twin.bad =>
        /\ ret.op = "lookup" =>
               covers_equally(ret.res.pfx,
                   lookup(twin.br, twin.lv, ret.key, NoLeaf).res.pfx)
        /\ (ret.op = "lclookup"
             /\ LevelCompressedTrie(twin.br, twin.lv, NoLeaf).fail = "") =>
               covers_equally(ret.res.pfx, TwinLC(ret.key).pfx)

\* C14: the lookup on the LC-trie never fails and always ends: the descent
\* reaches a leaf, and the walk up the parents stops on a leaf that covers the
\* query, at the latest on the root leaf.
C14_CompressedLookupEnds ==
    ret.op = "lclookup" =>
        /\ ret.res.tag = "Some" /\ ~ub
        /\ covers(ret.res.pfx, ret.key)

\* C15: in every state reachable by insert, replace and remove, leaf index 0
\* holds a prefix of length 0: no call removes it or moves another leaf there,
\* so the leaf arena is never empty and len() is never zero.
C15_RootLeafStays ==
    /\ len(leaves) >= 1
    /\ leaves[1].prefix.len = 0

\* a remove has taken a leaf out of an arena that still holds others, after
\* the root prefix was given again with other host bits
C15_Witness ==
    /\ last.op = "remove" /\ last.res.tag = "Some"
    /\ len(leaves) >= 2
    /\ leaves[1].prefix # RootPrefix

\* the branchings reached from branching b, within fuel levels
RECURSIVE Below(_, _)
Below(b, fuel) ==
    {b} \cup
    IF fuel = 0 THEN {}
    ELSE UNION { Below(c, fuel - 1) :
                 c \in { n \in { branching[b + 1].child[1], branching[b + 1].child[2] } :
                          is_branching(n) /\ n < Len(branching) } }

\* C20: in every state reachable by inserts and removes, every child index
\* and every escape index of a branching reached from the root is within the
\* branching arena or the leaf arena; after the swap_remove of remove no
\* branching holds the former index of the leaf that was last.
C20_IndicesInBounds ==
    Returned =>
        \A b \in Below(RootBranching, W) :
            \A n \in { branching[b + 1].child[1], branching[b + 1].child[2],
                        branching[b + 1].escape } :
                IF is_leaf(n) THEN InArena(leaves, n) ELSE n < Len(branching)

--------------------------------------------------------------------------
(* Prefix types: src/src/prefix/ipstd.rs, src/src/prefix/ipv6trunc.rs,
   src/src/prefix/ipv6netaddr.rs.  The widths are scaled down: the u64 slot
   has HalfBits bits, the u128 slot and the IPv6 address AddrBits bits, and
   the length kept in the last byte of an Ipv6Prefix56/120 slot LenBits
   bits, so that MAX_LEN is the slot width less the length field. *)

\* Bits of the short IPv6 slot (u64)
HalfBits == 4

\* Bits of the length field at the end of an Ipv6Prefix56/120 slot (u8)
LenBits == 3

AddrBits == 2 * HalfBits

BitOr(a, b) == a + b - BitAnd(a, b)

\* BitSlot::bitmask on a slot of w bits; a length above the width fails the
\* debug_assert (and overflows the shift without it): -1 stands for no mask
mask_of(w, l) == IF l = 0 THEN 0 ELSE IF l > w THEN -1 ELSE (Pow2(w) - 1) - (Pow2(w - l) - 1)

Packed == { "Ipv6Prefix56", "Ipv6Prefix120" }

ShortSlot == { "Ipv6Prefix56", "Ipv6NetAddr" }

\* the types built by new(addr, len)
LenTypes == { "Ipv4Prefix", "Ipv6Prefix", "Ipv6Net", "Ipv6Prefix56", "Ipv6Prefix120" }

\* Slot::LEN
slot_len(ty) == IF ty = "Ipv4Prefix" THEN W ELSE IF ty \in ShortSlot THEN HalfBits ELSE AddrBits

MAX_LEN(ty) == IF ty \in Packed THEN slot_len(ty) - LenBits ELSE slot_len(ty)

\* bits of the address new() takes
addr_len(ty) == IF ty = "Ipv4Prefix" THEN W ELSE AddrBits

Val(ty, slot, l) == [ty |-> ty, slot |-> slot, len |-> l]

NoVal == Val("none", 0, 0)

Ok(v) == [ok |-> TRUE, val |-> v, err |-> "none"]

Err(e) == [ok |-> FALSE, val |-> NoVal, err |-> e]

IpPrefixError == { "PrefixLenError", "AddrParseError" }

ip_len(p) ==
    IF p.ty \in Packed THEN p.slot % Pow2(LenBits)
    ELSE IF p.ty = "Ipv6NetAddr" THEN HalfBits
    ELSE IF p.ty = "Ipv6Addr" THEN AddrBits
    ELSE p.len

ip_bitslot(p) == p.slot

ip_bitmask(p) ==
    IF p.ty = "Ipv6NetAddr" THEN Pow2(HalfBits) - 1
    ELSE mask_of(slot_len(p.ty), ip_len(p))

ip_bitslot_trunc(p) ==
    IF p.ty \in Packed THEN p.slot - (p.slot % Pow2(LenBits))
    ELSE IF p.ty = "Ipv6Net" THEN BitAnd(p.slot, mask_of(AddrBits, p.len))
    ELSE p.slot

\* network(), as the AddrBits-bit number of the address
network(p) ==
    IF p.ty = "Ipv6Prefix56" THEN ip_bitslot_trunc(p) * Pow2(HalfBits)
    ELSE IF p.ty = "Ipv6NetAddr" THEN p.slot * Pow2(HalfBits)
    ELSE ip_bitslot_trunc(p)

\* Ipv4Prefix::new, Ipv6Prefix::new, Ipv6Net::new
new_std(ty, addr, l) ==
    IF l > MAX_LEN(ty) THEN Err("PrefixLenError")
    ELSE IF ty = "Ipv6Net" THEN Ok(Val(ty, addr, l))
    ELSE Ok(Val(ty, BitAnd(addr, mask_of(slot_len(ty), l)), l))

\* Ipv6Prefix56::new without the test of the length
new_56_any_len(addr, l) ==
    Ok(Val("Ipv6Prefix56", BitOr(BitAnd(addr \div Pow2(HalfBits), mask_of(HalfBits, l)), l), 0))

\* Ipv6Prefix56::new
new_56(addr, l) ==
    IF l > MAX_LEN("Ipv6Prefix56") THEN Err("PrefixLenError")
    ELSE Ok(Val("Ipv6Prefix56", BitOr(BitAnd(addr \div Pow2(HalfBits), mask_of(HalfBits, l)), l), 0))

\* Ipv6Prefix120::new
new_120(addr, l) ==
    IF l > MAX_LEN("Ipv6Prefix120") THEN Err("PrefixLenError")
    ELSE Ok(Val("Ipv6Prefix120", BitOr(BitAnd(addr, mask_of(AddrBits, l)), l), 0))

ip_new(ty, addr, l) ==
    IF ty = "Ipv6Prefix56" THEN new_56(addr, l)
    ELSE IF ty = "Ipv6Prefix120" THEN new_120(addr, l)
    ELSE new_std(ty, addr, l)

\* Ipv6NetAddr::new
new_netaddr(addr) == Val("Ipv6NetAddr", addr \div Pow2(HalfBits), 0)

\* Ipv6Prefix56::from_slot, Ipv6Prefix120::from_slot
from_slot(ty, slot) ==
    IF slot % Pow2(LenBits) <= MAX_LEN(ty) THEN Ok(Val(ty, slot, 0))
    ELSE Err("PrefixLenError")

\* From<Ipv6Net> for Ipv6Prefix and From<Ipv6Prefix> for Ipv6Net
into_std(v, to) ==
    IF to = "Ipv6Prefix" THEN Ok(Val(to, ip_bitslot_trunc(v), v.len))
    ELSE Ok(Val(to, v.slot, v.len))

\* From<Ipv6Prefix56/120> for Ipv6Net and for Ipv6Prefix
from_packed(v, to) == Ok(Val(to, network(v), ip_len(v)))

\* TryFrom<Ipv6Net> and TryFrom<Ipv6Prefix> for Ipv6Prefix56/120
try_from_std(v, to) == ip_new(to, v.slot, v.len)

\* From<Ipv6Prefix56> for Ipv6Prefix120
from_56(v) == Ok(Val("Ipv6Prefix120", BitOr(network(v), ip_len(v)), 0))

\* TryFrom<Ipv6Prefix120> for Ipv6Prefix56
try_from_120(v) ==
    IF ip_len(v) <= MAX_LEN("Ipv6Prefix56")
    THEN Ok(Val("Ipv6Prefix56", BitOr(v.slot \div Pow2(HalfBits), ip_len(v)), 0))
    ELSE Err("PrefixLenError")

\* From<Ipv6NetAddr> for Ipv6Net, Ipv6Prefix and Ipv6Prefix120
from_netaddr(v, to) ==
    IF to = "Ipv6Prefix120" THEN Ok(Val(to, BitOr(v.slot * Pow2(HalfBits), HalfBits), 0))
    ELSE ip_new(to, network(v), ip_len(v))

\* TryFrom<Ipv6Net>, <Ipv6Prefix>, <Ipv6Prefix120> for Ipv6NetAddr
try_netaddr(v) ==
    IF ip_len(v) = HalfBits THEN Ok(Val("Ipv6NetAddr", ip_bitslot(v) \div Pow2(HalfBits), 0))
    ELSE Err("PrefixLenError")

\* the conversions the crate defines, as <<from, to>>
Conversions ==
    { <<"Ipv6Net", "Ipv6Prefix">>, <<"Ipv6Prefix", "Ipv6Net">>,
      <<"Ipv6Prefix56", "Ipv6Net">>, <<"Ipv6Prefix56", "Ipv6Prefix">>,
      <<"Ipv6Prefix120", "Ipv6Net">>, <<"Ipv6Prefix120", "Ipv6Prefix">>,
      <<"Ipv6Net", "Ipv6Prefix56">>, <<"Ipv6Prefix", "Ipv6Prefix56">>,
      <<"Ipv6Net", "Ipv6Prefix120">>, <<"Ipv6Prefix", "Ipv6Prefix120">>,
      <<"Ipv6Prefix56", "Ipv6Prefix120">>, <<"Ipv6Prefix120", "Ipv6Prefix56">>,
      <<"Ipv6NetAddr", "Ipv6Net">>, <<"Ipv6NetAddr", "Ipv6Prefix">>,
      <<"Ipv6NetAddr", "Ipv6Prefix120">>,
      <<"Ipv6Net", "Ipv6NetAddr">>, <<"Ipv6Prefix", "Ipv6NetAddr">>,
      <<"Ipv6Prefix120", "Ipv6NetAddr">> }

try_into(v, to) ==
    IF to = "Ipv6NetAddr" THEN try_netaddr(v)
    ELSE IF v.ty = "Ipv6NetAddr" THEN from_netaddr(v, to)
    ELSE IF v.ty \in Packed /\ to \in Packed
    THEN (IF to = "Ipv6Prefix120" THEN from_56(v) ELSE try_from_120(v))
    ELSE IF v.ty \in Packed THEN from_packed(v, to)
    ELSE IF to \in Packed THEN try_from_std(v, to)
    ELSE into_std(v, to)

\* self.len().cmp(&other.len()) of the covering implementations
cmp_len(p, q) ==
    IF ip_len(p) < ip_len(q) THEN "WiderRange"
    ELSE IF ip_len(p) = ip_len(q) THEN "SameRange"
    ELSE "NoCover"

\* impl IpPrefixCovering<Self> for P, and the macro ipcover
ipcover(p, q) ==
    IF BitAnd(ip_bitslot(q), ip_bitmask(p)) # ip_bitslot_trunc(p) THEN "NoCover"
    ELSE cmp_len(p, q)

\* the macro ipcover_for_ipv6_on_u64: self has the short slot
ipcover_for_ipv6_on_u64(p, q) ==
    IF BitAnd(ip_bitslot(q) \div Pow2(HalfBits), ip_bitmask(p)) # ip_bitslot_trunc(p) THEN "NoCover"
    ELSE cmp_len(p, q)

\* the macro ipcover_of_ipv6_on_u64: other has the short slot
ipcover_of_ipv6_on_u64(p, q) ==
    IF BitAnd(ip_bitslot(q) * Pow2(HalfBits), ip_bitmask(p)) # ip_bitslot_trunc(p) THEN "NoCover"
    ELSE cmp_len(p, q)

\* impl IpPrefixCovering<Ipv6NetAddr> for Ipv6Prefix56
ipcover_56_netaddr(p, q) ==
    IF BitAnd(ip_bitslot(p), ip_bitmask(q)) = ip_bitslot(q) THEN "WiderRange" ELSE "NoCover"

\* the pairs of types covering is implemented for (an address is covered only)
CoverPair(pt, qt) ==
    \/ pt = qt
    \/ pt \in { "Ipv6Prefix", "Ipv6Net", "Ipv6Prefix56", "Ipv6Prefix120", "Ipv6NetAddr" }
       /\ qt \in { "Ipv6Prefix", "Ipv6Net", "Ipv6Prefix56", "Ipv6Prefix120", "Ipv6NetAddr", "Ipv6Addr" }

ip_covering(p, q) ==
    IF p.ty = q.ty THEN ipcover(p, q)
    ELSE IF p.ty = "Ipv6NetAddr" /\ q.ty = "Ipv6Prefix56" THEN "NoCover"
    ELSE IF p.ty = "Ipv6Prefix56" /\ q.ty = "Ipv6NetAddr" THEN ipcover_56_netaddr(p, q)
    ELSE IF p.ty \in ShortSlot THEN ipcover_for_ipv6_on_u64(p, q)
    ELSE IF q.ty \in ShortSlot THEN ipcover_of_ipv6_on_u64(p, q)
    ELSE ipcover(p, q)

ip_covers(p, q) == ip_covering(p, q) # "NoCover"

ip_covers_equally(p, q) == ip_covering(p, q) = "SameRange"

--------------------------------------------------------------------------
(* Operations on prefixes: src/src/prefix/tests.rs *)

\* the lengths given to new: every length of an address and two above
LenArgs == 0 .. AddrBits + 2

\* the addresses given to new for a type
AddrArgs(ty) == 0 .. Pow2(addr_len(ty)) - 1

\* the addresses the compared prefixes are built from: 00000000, 10000000,
\* 10100000, 10101000, 10101111, 01010000 and 11111111
CoverAddrs == { 0, 128, 160, 168, 175, 80, 255 }

\* the values of the results r that are Ok
OkVals(rs) == { r.val : r \in { x \in rs : x.ok } }

\* the prefixes given to covering: every type built from CoverAddrs with
\* every length, and every slot from_slot accepts over these addresses
CoverVals ==
    OkVals({ ip_new(ty, a, l) : ty \in LenTypes \ { "Ipv4Prefix" }, a \in CoverAddrs, l \in 0 .. AddrBits })
    \cup OkVals({ from_slot("Ipv6Prefix120", BitOr(a - (a % Pow2(LenBits)), l)) : a \in CoverAddrs, l \in 0 .. Pow2(LenBits) - 1 })
    \cup OkVals({ from_slot("Ipv6Prefix56", s) : s \in 0 .. Pow2(HalfBits) - 1 })
    \cup { new_netaddr(a) : a \in CoverAddrs }
    \cup { Val("Ipv6Addr", a, 0) : a \in CoverAddrs }

trie_vars == <<branching, leaves, last, ret, stored, nrem, dbg, ub, lc, twin, failed>>

\* no prefix operation has run yet: constructions and comparisons start here
Fresh == px = NoPx

\* Ipv4Prefix::new, Ipv6Prefix::new, Ipv6Net::new, Ipv6Prefix56::new,
\* Ipv6Prefix120::new
New(ty, addr, l) ==
    /\ Fresh
    /\ px' = [op |-> "new", ty |-> ty, addr |-> addr, len |-> l, res |-> ip_new(ty, addr, l)]
    /\ UNCHANGED trie_vars

\* Ipv6Prefix56::from_slot, Ipv6Prefix120::from_slot
FromSlot(ty, slot) ==
    /\ Fresh
    /\ px' = [op |-> "from_slot", ty |-> ty, slot |-> slot, res |-> from_slot(ty, slot)]
    /\ UNCHANGED trie_vars

\* Ipv6NetAddr::new
NewNetAddr(addr) ==
    /\ Fresh
    /\ px' = [op |-> "new", ty |-> "Ipv6NetAddr", addr |-> addr, len |-> HalfBits, res |-> Ok(new_netaddr(addr))]
    /\ UNCHANGED trie_vars

\* a conversion of the prefix just built, or the way back of a conversion
\* (prev is the prefix the converted one came from)
TryInto(to) ==
    /\ px.op \in { "new", "from_slot", "try_into" }
    /\ px.res.ok
    /\ <<px.res.val.ty, to>> \in Conversions
    /\ px.op = "try_into" => px.prev = NoVal /\ to = px.from.ty
    /\ px' = [op |-> "try_into", from |-> px.res.val, to |-> to,
              prev |-> IF px.op = "try_into" THEN px.from ELSE NoVal,
              res |-> try_into(px.res.val, to)]
    /\ UNCHANGED trie_vars

\* p.covering(q)
Cover(p, q) ==
    /\ Fresh
    /\ CoverPair(p.ty, q.ty)
    /\ px' = [op |-> "covering", p |-> p, q |-> q, res |-> ip_covering(p, q)]
    /\ UNCHANGED trie_vars

NextPx ==
    \/ Fresh /\ \E ty \in LenTypes : \E a \in AddrArgs(ty) : \E l \in LenArgs : New(ty, a, l)
    \/ Fresh /\ \E ty \in Packed : \E s \in 0 .. Pow2(slot_len(ty)) - 1 : FromSlot(ty, s)
    \/ Fresh /\ \E a \in AddrArgs("Ipv6NetAddr") : NewNetAddr(a)
    \/ \E to \in { c[2] : c \in Conversions } : TryInto(to)
    \/ Fresh /\ \E p \in CoverVals : \E q \in CoverVals : Cover(p, q)

SpecPx == Init /\ [][NextPx]_vars

--------------------------------------------------------------------------
(* What the documentation promises of the prefix types *)

\* a slot of the type ty, zero-extended to AddrBits bits
zero_extended(ty, x) == IF ty \in ShortSlot THEN x * Pow2(HalfBits) ELSE x

\* the coverage of q by p the documentation gives, from the lengths, the
\* truncated slots and the mask of p
Coverage(p, q) ==
    IF /\ ip_len(p) = ip_len(q)
       /\ zero_extended(p.ty, ip_bitslot_trunc(p)) = zero_extended(q.ty, ip_bitslot_trunc(q))
    THEN "SameRange"
    ELSE IF /\ ip_len(p) < ip_len(q)
            /\ BitAnd(zero_extended(q.ty, ip_bitslot(q)), mask_of(AddrBits, ip_len(p)))
                   = zero_extended(p.ty, ip_bitslot_trunc(p))
    THEN "WiderRange"
    ELSE "NoCover"

\* C16: p.covering(q) is SameRange iff p and q have equal lengths and equal
\* truncated slots, WiderRange iff p.len < q.len and the slot of q masked by
\* the mask of p is the truncated slot of p, and NoCover otherwise, for pairs
\* of one slot width and for pairs mixing the 64-bit and the 128-bit slot
\* (the shorter slot zero-extended).
C16_CoveringByLengthAndSlot ==
    px.op = "covering" => px.res = Coverage(px.p, px.q)

\* C17: for every prefix value obtained through new, from_slot or a
\* conversion, bitslot_trunc() equals bitslot() & bitmask(), and bitmask()
\* has exactly the len() most significant bits of the slot set.
C17_TruncIsMaskedSlot ==
    (px.op \in { "new", "from_slot", "try_into" } /\ px.res.ok) =>
        /\ ip_bitslot_trunc(px.res.val) = BitAnd(ip_bitslot(px.res.val), ip_bitmask(px.res.val))
        /\ ip_len(px.res.val) <= slot_len(px.res.val.ty)
        /\ ip_bitmask(px.res.val) = Pow2(slot_len(px.res.val.ty)) - Pow2(slot_len(px.res.val.ty) - ip_len(px.res.val))

\* the greatest length the documentation gives for a type: the whole slot
\* (32, 128), or the slot less the length byte (120 of 128, 56 of 64)
DocMaxLen(ty) ==
    IF ty = "Ipv4Prefix" THEN W
    ELSE IF ty = "Ipv6Prefix" THEN AddrBits
    ELSE IF ty = "Ipv6Prefix120" THEN AddrBits - LenBits
    ELSE HalfBits - LenBits

\* C18: new with a length above MAX_LEN returns PrefixLenError, which is not
\* the error of a malformed address; every length up to MAX_LEN is accepted
\* and gives a prefix of that length that keeps the bits of the address
\* above the length and has the bits below it cleared.
C18_NewChecksLength ==
    (px.op = "new" /\ px.ty \in { "Ipv4Prefix", "Ipv6Prefix", "Ipv6Prefix120", "Ipv6Prefix56" }) =>
        IF px.len > DocMaxLen(px.ty)
        THEN ~px.res.ok /\ px.res.err = "PrefixLenError" /\ px.res.err \in IpPrefixError \ { "AddrParseError" }
        ELSE /\ px.res.ok
             /\ px.res.val.ty = px.ty
             /\ ip_len(px.res.val) = px.len
             /\ network(px.res.val) % Pow2(addr_len(px.ty) - px.len) = 0
             /\ network(px.res.val) \div Pow2(addr_len(px.ty) - px.len) = px.addr \div Pow2(addr_len(px.ty) - px.len)

\* a /56 prefix was asked with the first length above MAX_LEN and refused
C18_Witness ==
    /\ px.op = "new" /\ px.ty = "Ipv6Prefix56"
    /\ px.len = MAX_LEN("Ipv6Prefix56") + 1
    /\ ~px.res.ok

\* C19: converting a prefix of length l to Ipv6Prefix120 or Ipv6Prefix56
\* succeeds iff l is at most 120 or 56 and fails with PrefixLenError
\* otherwise; the converted prefix covers equally the original, and
\* converting it back gives a prefix equal to the original.
C19_ConversionsPreserve ==
    /\ (px.op = "try_into" /\ px.to \in Packed) =>
           /\ px.res.ok <=> ip_len(px.from) <= DocMaxLen(px.to)
           /\ ~px.res.ok => px.res.err = "PrefixLenError"
           /\ px.res.ok => ip_covers_equally(px.res.val, px.from)
    /\ (px.op = "try_into" /\ px.prev # NoVal /\ px.from.ty \in Packed) =>
           px.res = Ok(px.prev)

\* C30: for an Ipv6Prefix56 p and an Ipv6NetAddr a, p.covering(a) is
\* WiderRange exactly when the first p.len bits of a are the truncated slot
\* of p (so ::/0 covers every a) and NoCover otherwise, and a.covering(p) is
\* always NoCover.
C30_Prefix56AgainstNetAddr ==
    /\ (px.op = "covering" /\ px.p.ty = "Ipv6Prefix56" /\ px.q.ty = "Ipv6NetAddr") =>
           px.res = IF px.q.slot - (px.q.slot % Pow2(HalfBits - ip_len(px.p))) = ip_bitslot_trunc(px.p)
                    THEN "WiderRange" ELSE "NoCover"
    /\ (px.op = "covering" /\ px.p.ty = "Ipv6NetAddr" /\ px.q.ty = "Ipv6Prefix56") =>
           px.res = "NoCover"

--------------------------------------------------------------------------
(* What the documentation promises of the branchings *)

\* the debug assertions of insert_prefix_branching
BranchingAsserts == { "insert_prefix_branching: bit <= p", "insert_prefix_branching: bit > p" }

\* C21: in every state reachable by inserts and removes the bit of the
\* branchings is strictly increasing along every path from the root
\* branching, and the debug assertions of insert_prefix_branching (bit of
\* the node above <= new bit, bit of the branching pushed below > new bit)
\* have never failed.
C21_BitsIncrease ==
    Returned =>
        /\ \A b \in Below(RootBranching, Len(branching)) :
               \A i \in 1 .. 2 :
                   LET c == branching[b + 1].child[i]
                   IN  (is_branching(c) /\ c < Len(branching)) =>
                           branching[c + 1].bit > branching[b + 1].bit
        /\ failed \cap BranchingAsserts = {}

\* the leaves of the sub-trie below branching b: those a child slot of a
\* branching reached from b holds in place of the escape of that branching
SubLeaves(b) ==
    { n \in UNION { { branching[c + 1].child[1], branching[c + 1].child[2] } \ { branching[c + 1].escape } :
                    c \in Below(b, Len(branching)) } : is_leaf(n) /\ InArena(leaves, n) }

\* the stored leaves that end above the bit of branching b and cover the
\* whole sub-trie below b
CoverSubTrie(b) ==
    { l \in { LeafIndex(i) : i \in 0 .. Len(leaves) - 1 } :
          /\ PfxAt(leaves, l, NoLeaf).len < branching[b + 1].bit
          /\ \A x \in SubLeaves(b) : covers(PfxAt(leaves, l, NoLeaf), PfxAt(leaves, x, NoLeaf)) }

\* C22: in every state reachable by inserts and removes, the escape of each
\* branching B reached from the root is the leaf of the longest stored
\* prefix that covers the whole sub-trie below B (the root leaf when there
\* is no other), and a child slot of B that is not B.escape holds a deeper
\* node: a branching, or a leaf that reaches the bit of B.
C22_EscapeIsDeepestCover ==
    Returned =>
        \A b \in Below(RootBranching, Len(branching)) :
            /\ branching[b + 1].escape \in CoverSubTrie(b)
            /\ \A l \in CoverSubTrie(b) :
                   SubLeaves(b) # {} =>
                       PfxAt(leaves, l, NoLeaf).len <= PfxAt(leaves, branching[b + 1].escape, NoLeaf).len
            /\ \A i \in 1 .. 2 :
                   LET c == branching[b + 1].child[i]
                   IN  (is_leaf(c) /\ c # branching[b + 1].escape) =>
                           /\ InArena(leaves, c)
                           /\ PfxAt(leaves, c, NoLeaf).len >= branching[b + 1].bit

\* C23: during remove, the lookup on the prefix of the last leaf, made after
\* the removed leaf was unlinked, finds a leaf of the same length, whichever
\* leaf is removed (the one at the last index included): the assertion on
\* the equal lengths never fails.
C23_LastLeafFoundAgain ==
    "remove: lastleaf len" \notin failed

--------------------------------------------------------------------------
(* What the documentation promises of the compressed nodes *)

\* the build of the LC-trie has returned
Built == lc.built /\ last.op = "compress" /\ last.res.tag = "None"

\* the child slots of the compressed node n that hold a leaf
LeafSlots(n) ==
    { k \in 0 .. children(lc.zone[n]) - 1 : is_leaf(lc.zone[n].child[k + 1]) }

\* C24: in an LC-trie built from any radix trie, a leaf L in
\* child slot k of a compressed node N is N.escape, or the bits of the
\* truncated slot of L in the letter window of N are equal to k.
C24_LeafLetterIsSlot ==
    Built =>
        \A n \in DOMAIN lc.zone : \A k \in LeafSlots(n) :
            LET L == lc.zone[n].child[k + 1]
            IN  \/ L = lc.zone[n].escape
                \/ /\ InArena(leaves, L)
                   /\ letter(lc.zone[n], bitslot_trunc(PfxAt(leaves, L, NoLeaf))) = k

\* the same within the length of L only (a leaf shorter than the window fills
\* every slot that agrees with it on its own bits)
LeafLetterWithinLength ==
    Built =>
        \A n \in DOMAIN lc.zone : \A k \in LeafSlots(n) :
            LET L == lc.zone[n].child[k + 1]
            IN  \/ L = lc.zone[n].escape
                \/ /\ InArena(leaves, L)
                   /\ letter(lc.zone[n], bitslot_trunc(PfxAt(leaves, L, NoLeaf)))
                          = BitAnd(k, letter(lc.zone[n], bitmask(PfxAt(leaves, L, NoLeaf))))

\* the compressed nodes reached from node n by child slots, n included
RECURSIVE CBelow(_, _)
CBelow(n, fuel) ==
    IF fuel = 0 THEN { n }
    ELSE { n } \cup UNION { CBelow(c, fuel - 1) :
                            c \in { lc.zone[n].child[i] : i \in 1 .. children(lc.zone[n]) }
                                  \cap DOMAIN lc.zone }

C27_CompressedNodeShape ==
    Built =>
        \A n \in DOMAIN lc.zone :
            LET c == lc.zone[n]
            IN  /\ \E b \in 0 .. Len(branching) - 1 :
                       /\ c.shift = branching[b + 1].bit - 1
                       /\ c.escape = branching[b + 1].escape
                /\ c.size \in 1 .. 16
                /\ c.mask = Pow2(c.size) - 1
                /\ Len(c.child) = Pow2(c.size)
                /\ c.shift + c.size <= W

\* a compressed node that is not the root, over two bits or more, reaching
\* the last bit of the slot
C27_Witness ==
    /\ Built
    /\ \E n \in DOMAIN lc.zone \ { RootBranching } :
           /\ lc.zone[n].size >= 2
           /\ lc.zone[n].shift + lc.zone[n].size = W

\* the branchings reached from b through branchings of bit p at most, b
\* included; with same, through branchings of the escape esc only
RECURSIVE Within(_, _, _, _, _)
Within(b, p, same, esc, fuel) ==
    IF fuel = 0 THEN { b }
    ELSE { b } \cup
         UNION { Within(c, p, same, esc, fuel - 1) :
                 c \in { x \in { branching[b + 1].child[1], branching[b + 1].child[2] } :
                         /\ is_branching(x) /\ x < Len(branching)
                         /\ branching[x + 1].bit <= p
                         /\ same => branching[x + 1].escape = esc } }

\* the branchings below b that share its escape, within j bits after its bit
Sharing(b, j) ==
    Within(b, branching[b + 1].bit + j, TRUE, branching[b + 1].escape, Len(branching)) \ { b }

\* the largest j of 1..15 with at least (1 << j) / 2 such branchings, 0 if none
LargestSharing(b) ==
    LET js == { j \in 1 .. 15 : Cardinality(Sharing(b, j)) >= Pow2(j) \div 2 }
    IN  IF js = {} THEN 0 ELSE CHOOSE j \in js : \A i \in js : i <= j

\* C28: with comp = 0 the size of the node of a branching B is j + 1, j
\* being the largest value of 1..=15 such that at least (1 << j) / 2
\* branchings of the sub-trie of B share B.escape within the j bits after
\* bit(B); the size is 1 when there is no such j.
C28_SizeIsLargestSharing ==
    Built =>
        \A n \in DOMAIN lc.zone :
            \E b \in 0 .. Len(branching) - 1 :
                /\ lc.zone[n].shift = branching[b + 1].bit - 1
                /\ lc.zone[n].escape = branching[b + 1].escape
                /\ lc.zone[n].size = LargestSharing(b) + 1

\* the branchings within j bits after the bit of b, b included
Counted(b, j) ==
    Cardinality(Within(b, branching[b + 1].bit + j, FALSE, RootLeaf, Len(branching)))

\* the largest j below the depth over which the branchings under b share its
\* escape, such that every step up to j counts (1 << i) / 2 branchings at
\* least and step j counts more than the step before; 0 if none
LargestCounted(b) ==
    LET depth == compression_level_max(Tree(branching), branching[b + 1], 15,
                                       branching[b + 1].escape)
        js == { j \in 1 .. depth - 1 :
                    /\ \A i \in 1 .. j : Counted(b, i) >= Pow2(i) \div 2
                    /\ Counted(b, j) > Counted(b, j - 1) }
    IN  IF js = {} THEN 0 ELSE CHOOSE j \in js : \A i \in js : i <= j

\* C28 (amended): the size of the node of a branching B is j + 1, j being
\* the largest value below the depth over which every branching under B
\* shares B.escape (at most 15) such that, B included, (1 << i) / 2
\* branchings at least lie within i bits after bit(B) for every i up to j,
\* and more within j bits than within j - 1; the size is 1 when there is no
\* such j.
C28_SizeIsLargestCounted ==
    Built =>
        \A n \in DOMAIN lc.zone :
            \E b \in 0 .. Len(branching) - 1 :
                /\ lc.zone[n].shift = branching[b + 1].bit - 1
                /\ lc.zone[n].escape = branching[b + 1].escape
                /\ lc.zone[n].size = LargestCounted(b) + 1

\* a node over two bits or more is built for a branching under which more
\* branchings share its escape than the depth of equal escapes lets it take in
C28_Witness ==
    /\ Built
    /\ \E n \in DOMAIN lc.zone : \E b \in 0 .. Len(branching) - 1 :
           /\ lc.zone[n].shift = branching[b + 1].bit - 1
           /\ lc.zone[n].escape = branching[b + 1].escape
           /\ lc.zone[n].size = LargestCounted(b) + 1
           /\ lc.zone[n].size >= 2
           /\ LargestSharing(b) > LargestCounted(b)

\* C29: compress() ends for every radix trie reached by insert, replace and
\* remove, whatever the representation of the stored prefixes, the root leaf
\* included: the walk up the escape chain made for a child slot whose leaf
\* does not match reaches a leaf that matches, the root leaf at the latest.
C29_CompressEnds ==
    last.op = "compress" => last.res # Hang

====
